---- MODULE Spec2Model ----
(***************************************************************************)
(* Model of the Paster kash scripts:                                       *)
(*   electron/resources/kash-ultimate-runner.py  (module start-up, main,   *)
(*       process_with_filestore, process_item_with_action and built-ins)   *)
(*   electron/resources/kash_docx_action.py      (docx_to_markdown)        *)
(*   electron/resources/kash_wrapper.py          (workspace directory)     *)
(*                                                                         *)
(* Text is a sequence of one-character strings, so that strip, substring   *)
(* tests, split and join are computed as Python computes them.  An         *)
(* optional value is a sequence of length 0 (None) or 1.                   *)
(***************************************************************************)
EXTENDS Naturals, Sequences, FiniteSets, TLC

\* ------------------------------------------------------------------ bounds
\* Longest argument list (sys.argv[1:]) explored.
MaxArgs == 3
\* Longest document (number of paragraphs) explored.
MaxParas == 2

\* ---------------------------------------------------------------- options
None == <<>>
Some(x) == <<x>>
IsNone(o) == o = <<>>
Get(o) == o[1]

\* ------------------------------------------------------------------- text
Whitespace == {" ", "\n", "\t"}

RECURSIVE LStrip(_)
LStrip(s) == IF s # <<>> /\ Head(s) \in Whitespace THEN LStrip(Tail(s)) ELSE s

RECURSIVE RStrip(_)
RStrip(s) ==
    IF s # <<>> /\ s[Len(s)] \in Whitespace
    THEN RStrip(SubSeq(s, 1, Len(s) - 1))
    ELSE s

\* str.strip()
Strip(s) == RStrip(LStrip(s))

\* pat in s
Contains(s, pat) ==
    \E i \in 1..(Len(s) + 1) :
        /\ i + Len(pat) - 1 <= Len(s)
        /\ SubSeq(s, i, i + Len(pat) - 1) = pat

\* sep.join(lines), sep a single character
RECURSIVE Join(_, _)
Join(lines, sep) ==
    IF lines = <<>> THEN <<>>
    ELSE IF Len(lines) = 1 THEN lines[1]
    ELSE lines[1] \o <<sep>> \o Join(Tail(lines), sep)

\* s.split(sep), sep a single character
RECURSIVE SplitAcc(_, _, _)
SplitAcc(s, sep, cur) ==
    IF s = <<>> THEN <<cur>>
    ELSE IF Head(s) = sep THEN <<cur>> \o SplitAcc(Tail(s), sep, <<>>)
    ELSE SplitAcc(Tail(s), sep, Append(cur, Head(s)))

Split(s, sep) == SplitAcc(s, sep, <<>>)

\* ------------------------------------------------- kash_docx_action.py
StrTitle == <<"T", "i", "t", "l", "e">>
StrHeading1 == <<"H", "e", "a", "d", "i", "n", "g", " ", "1">>
StrHeading2 == <<"H", "e", "a", "d", "i", "n", "g", " ", "2">>
StrHeading3 == <<"H", "e", "a", "d", "i", "n", "g", " ", "3">>
StrList == <<"L", "i", "s", "t">>

\* paragraph.style.name if paragraph.style else ''
StyleName(p) == IF IsNone(p.style) THEN <<>> ELSE Get(p.style)

\* The run formatting as it would be with the bold test first.
FormatRunBoldFirst(run) ==
    IF run.bold THEN <<"*", "*">> \o run.text \o <<"*", "*">>
    ELSE IF run.bold /\ run.italic THEN <<"*", "*", "*">> \o run.text \o <<"*", "*", "*">>
    ELSE IF run.italic THEN <<"*">> \o run.text \o <<"*">>
    ELSE run.text

\* One run of the bold/italic loop.
FormatRun(run) ==
    IF run.bold /\ run.italic THEN <<"*", "*", "*">> \o run.text \o <<"*", "*", "*">>
    ELSE IF run.bold THEN <<"*", "*">> \o run.text \o <<"*", "*">>
    ELSE IF run.italic THEN <<"*">> \o run.text \o <<"*">>
    ELSE run.text

RECURSIVE FormattedText(_)
FormattedText(runs) ==
    IF runs = <<>> THEN <<>> ELSE FormatRun(Head(runs)) \o FormattedText(Tail(runs))

\* The style rules as they would be with the list rule tested first.
ContentLineListFirst(p, text) ==
    LET style_name == StyleName(p) IN
    IF Contains(style_name, StrList) THEN <<"-", " ">> \o text
    ELSE IF Contains(style_name, StrTitle) THEN <<"#", " ">> \o text
    ELSE IF Contains(style_name, StrHeading1) THEN <<"#", "#", " ">> \o text
    ELSE IF Contains(style_name, StrHeading2) THEN <<"#", "#", "#", " ">> \o text
    ELSE IF Contains(style_name, StrHeading3) THEN <<"#", "#", "#", "#", " ">> \o text
    ELSE LET formatted_text == FormattedText(p.runs) IN
         IF formatted_text # <<>> THEN formatted_text ELSE text

\* The line appended for a paragraph whose stripped text is `text`.
ContentLine(p, text) ==
    LET style_name == StyleName(p) IN
    IF Contains(style_name, StrTitle) THEN <<"#", " ">> \o text
    ELSE IF Contains(style_name, StrHeading1) THEN <<"#", "#", " ">> \o text
    ELSE IF Contains(style_name, StrHeading2) THEN <<"#", "#", "#", " ">> \o text
    ELSE IF Contains(style_name, StrHeading3) THEN <<"#", "#", "#", "#", " ">> \o text
    ELSE IF Contains(style_name, StrList) THEN <<"-", " ">> \o text
    ELSE LET formatted_text == FormattedText(p.runs) IN
         IF formatted_text # <<>> THEN formatted_text ELSE text

\* Spacing appended after non-list items.
Spacing(p) == IF ~Contains(StyleName(p), StrList) THEN << <<>> >> ELSE <<>>

\* One iteration of the paragraph loop: what is appended to markdown_lines.
ParagraphLines(p) ==
    LET text == Strip(p.text) IN
    IF text # <<>> THEN <<ContentLine(p, text)>> \o Spacing(p) ELSE <<>>

RECURSIVE MarkdownLines(_)
MarkdownLines(paragraphs) ==
    IF paragraphs = <<>> THEN <<>>
    ELSE ParagraphLines(Head(paragraphs)) \o MarkdownLines(Tail(paragraphs))

\* '\n'.join(markdown_lines).strip()
MarkdownContent(lines) == Strip(Join(lines, "\n"))

\* ---------------------------------------------------------------- paths
\* A path: the directory components, the stem and the suffix of its name.
Path(dir, stem, suffix) == [dir |-> dir, stem |-> stem, suffix |-> suffix]

\* workspace_dir / store_path
JoinPath(base, rel) == [rel EXCEPT !.dir = base \o rel.dir]

\* Path.home() / '.paster' / 'kash-workspace'   (runner, initialize_filestore)
RunnerWorkspaceDir == <<"~", ".paster", "kash-workspace">>
\* Path.home() / '.paster' / 'kash-workspace'   (wrapper, run_kash_action)
WrapperWorkspaceDir == <<"~", ".paster", "kash-workspace">>
\* Path.home() / '.aipaste' / 'kash-workspace'  (docx_to_markdown)
DocxWorkspaceDir == <<"~", ".aipaste", "kash-workspace">>

\* file_path.suffix.lower(), on the suffixes the model uses
LowerSuffix(suffix) ==
    CASE suffix = ".DOCX" -> ".docx"
      [] suffix = ".DOC" -> ".doc"
      [] OTHER -> suffix

DocxSuffixes == {".docx", ".doc"}

\* ---------------------------------------------------------------- items
NoError == [cls |-> "", msg |-> "", arg |-> <<>>]
Err(cls, msg, arg) == [cls |-> cls, msg |-> msg, arg |-> arg]

\* item.derived_copy(...): a new item carrying the given fields, not yet stored.
DerivedCopy(item, format, body, title, description) ==
    [format |-> format, body |-> body, title |-> title,
     description |-> description, external_path |-> None, store_path |-> None,
     derived |-> TRUE]

\* The outcome of a call: the value returned or the exception raised, the
\* calls it made (ran) and the file it read (read).
Ok(item, ran, read) ==
    [raised |-> FALSE, error |-> NoError, item |-> Some(item), ran |-> ran,
     read |-> read, res |-> None]
Raise(error, ran, read) ==
    [raised |-> TRUE, error |-> error, item |-> None, ran |-> ran, read |-> read,
     res |-> None]

\* ------------------------------------- kash_docx_action.py: docx_to_markdown
\* Lines 20-30: the file path of the item.
DocxFilePath(item) ==
    IF ~IsNone(item.external_path) THEN item.external_path
    ELSE IF ~IsNone(item.store_path)
         THEN Some(JoinPath(DocxWorkspaceDir, Get(item.store_path)))
    ELSE None

\* Lines 35-37.
DocxSuffixOk(file_path) == LowerSuffix(file_path.suffix) \in DocxSuffixes

\* The handler as it would be with except Exception.
IsImportErrorAny(cls) == TRUE

\* except ImportError (line 82, line 87)
IsImportError(cls) == cls = "ImportError"

\* Lines 39-88: the try block with its fallback.  env names what the imports
\* and the library calls do: env.docx and env.docx2txt are "ok" or the class
\* of the exception raised; env.txt is what docx2txt.process returns.
DocxBody(env, doc) ==
    IF env.docx = "ok"
    THEN [raised |-> FALSE, error |-> NoError,
          body |-> MarkdownContent(MarkdownLines(doc)),
          ran |-> <<"import docx", "Document", "paragraphs">>]
    ELSE LET primary == IF env.docx = "ImportError" THEN <<"import docx">>
                        ELSE <<"import docx", "Document">>
         IN
    IF ~IsImportError(env.docx)
    THEN [raised |-> TRUE, error |-> Err(env.docx, "primary conversion failed", <<>>),
          body |-> <<>>, ran |-> primary]
    ELSE IF env.docx2txt = "ok"
    THEN [raised |-> FALSE, error |-> NoError, body |-> env.txt,
          ran |-> primary \o <<"import docx2txt", "docx2txt.process">>]
    ELSE IF IsImportError(env.docx2txt)
    THEN [raised |-> TRUE,
          error |-> Err("ImportError", "Neither python-docx nor docx2txt is installed. Please install one of them.", <<>>),
          body |-> <<>>, ran |-> primary \o <<"import docx2txt">>]
    ELSE [raised |-> TRUE, error |-> Err(env.docx2txt, "docx2txt failed", <<>>),
          body |-> <<>>,
          ran |-> primary \o <<"import docx2txt", "docx2txt.process">>]

\* Lines 90-100.
DocxOutputItem(item, file_path, markdown_content) ==
    DerivedCopy(item, "markdown", Some(markdown_content),
                Some(file_path.stem \o "_converted"), "")

\* docx_to_markdown(item), whole.
DocxToMarkdown(item, env, doc) ==
    LET fp == DocxFilePath(item) IN
    IF IsNone(fp)
    THEN Raise(Err("ValueError", "Item must have a file path for DOCX processing", <<>>),
               <<>>, None)
    ELSE IF ~DocxSuffixOk(Get(fp))
    THEN Raise(Err("ValueError", "File must be a DOCX file, got ", <<Get(fp).suffix>>),
               <<>>, None)
    ELSE LET b == DocxBody(env, doc) IN
         IF b.raised THEN Raise(b.error, b.ran, fp)
         ELSE Ok(DocxOutputItem(item, Get(fp), b.body), Append(b.ran, "derived_copy"), fp)

\* ------------------------------------------------------- documents (python-docx)
Run(text, bold, italic) == [text |-> text, bold |-> bold, italic |-> italic]
Para(style, text, runs) == [style |-> style, text |-> text, runs |-> runs]

StyNormal == <<"N", "o", "r", "m", "a", "l">>
StyListBullet == StrList \o <<" ", "B", "u", "l", "l", "e", "t">>
StyListTitle == StrList \o <<" ">> \o StrTitle
StyListHeading2 == StrList \o <<" ">> \o StrHeading2
StyHeading1Title == StrHeading1 \o <<" ">> \o StrTitle

\* paragraph.text is the text of the runs and of the hyperlinks of the
\* paragraph; paragraph.runs are the runs alone.
Paragraphs ==
    { Para(Some(StrTitle), <<"a">>, <<Run(<<"a">>, FALSE, FALSE)>>),
      Para(Some(StrHeading1), <<" ", "b", " ">>, <<Run(<<" ", "b", " ">>, TRUE, FALSE)>>),
      Para(Some(StrHeading2), <<"c">>, <<Run(<<"c">>, FALSE, FALSE)>>),
      Para(Some(StrHeading3), <<"d">>, <<Run(<<"d">>, FALSE, TRUE)>>),
      Para(Some(StyListBullet), <<"e">>, <<Run(<<"e">>, FALSE, TRUE)>>),
      Para(Some(StyNormal), <<"f", " ", "g">>,
           <<Run(<<"f", " ">>, TRUE, FALSE), Run(<<"g">>, FALSE, TRUE)>>),
      Para(Some(StyNormal), <<"h">>, <<Run(<<"h">>, TRUE, TRUE)>>),
      Para(Some(StyNormal), <<" ">>, <<Run(<<" ">>, TRUE, FALSE)>>),
      Para(None, <<"k">>, <<>>),
      Para(Some(StyListTitle), <<"m">>, <<Run(<<"m">>, FALSE, FALSE)>>),
      Para(Some(StyListHeading2), <<"n">>, <<Run(<<"n">>, TRUE, FALSE)>>),
      Para(Some(StyHeading1Title), <<>>, <<>>),
      Para(Some(StyHeading1Title), <<"p">>, <<Run(<<"p">>, FALSE, FALSE)>>),
      Para(None, <<" ", "q">>, <<Run(<<" ", "q">>, FALSE, FALSE)>>) }

RECURSIVE SeqsUpTo(_, _)
SeqsUpTo(S, n) ==
    IF n = 0 THEN {<<>>}
    ELSE LET shorter == SeqsUpTo(S, n - 1)
         IN shorter \cup { Append(q, x) : q \in shorter, x \in S }

Documents == SeqsUpTo(Paragraphs, MaxParas)

\* What the imports and library calls of docx_to_markdown may do.
DocxEnvs ==
    { [docx |-> "ok", docx2txt |-> "ok", txt |-> <<>>],
      [docx |-> "Exception", docx2txt |-> "ok", txt |-> <<>>],
      [docx |-> "ImportError", docx2txt |-> "ok", txt |-> <<"t", "x", "t", "\n">>],
      [docx |-> "ImportError", docx2txt |-> "ImportError", txt |-> <<>>],
      [docx |-> "ImportError", docx2txt |-> "Exception", txt |-> <<>>] }

\* The documents behind the DOCX files the runner is given.
RunnerDocs ==
    { <<>>,
      << Para(Some(StrTitle), <<"a">>, <<Run(<<"a">>, FALSE, FALSE)>>),
         Para(Some(StyNormal), <<"h">>, <<Run(<<"h">>, TRUE, TRUE)>>) >> }

\* ------------------------------------------ kash-ultimate-runner.py: built-ins
\* Items the toolkit hands back from store.load(imported_path).
Item(format, body, title, external_path, store_path) ==
    [format |-> format, body |-> body, title |-> title, description |-> "",
     external_path |-> external_path, store_path |-> store_path, derived |-> FALSE]

LoadedItems ==
    { Item("markdown", Some(<<"#", " ", "a">>), Some("a"), None, Some(Path(<<"docs">>, "a", ".md"))),
      Item("html", Some(<<"<", "b", ">", "x", "<", "\n", ">">>), Some("b"), None,
           Some(Path(<<"docs">>, "b", ".html"))),
      Item("docx", None, None, None, Some(Path(<<"docs">>, "c", ".docx"))),
      Item("docx", None, Some("c"), Some(Path(<<"in">>, "c", ".DOCX")),
           Some(Path(<<"docs">>, "c", ".docx"))),
      Item("plaintext", Some(<<"a", "\n", " ", "\n", "b">>), None, None, None) }

\* Items and bodies produced inside the toolkit (its actions and converters).
ToolkitItem == Item("markdown", Some(<<"t", "k">>), Some("toolkit"), None, None)
ToolkitItem2 == Item("plaintext", Some(<<"2">>), Some("toolkit2"), None, None)
ToolkitBody == <<"t", "k">>

\* How a toolkit import or call ends: "ok" or the class of the exception.
ToolkitOutcomes == {"ok", "ImportError", "Exception"}

\* convert_to_markdown as it would be if it still converted DOCX content itself
\* with the paragraph mapping.
ConvertToMarkdownWithDocx(item) ==
    IF item.format = "docx"
    THEN { Ok(DerivedCopy(item, "markdown", Some(MarkdownContent(MarkdownLines(doc))),
                          item.title, "Converted from DOCX"),
              <<"convert_to_markdown", "paragraphs">>, None)
           : doc \in RunnerDocs }
    ELSE {Ok(item, <<"convert_to_markdown">>, None)}

\* convert_to_markdown(item, input_path)
ConvertToMarkdown(item) ==
    IF item.format = "markdown" THEN {Ok(item, <<"convert_to_markdown">>, None)}
    ELSE IF item.format = "html"
    THEN { IF o = "ok"
           THEN Ok(DerivedCopy(item, "markdown", Some(ToolkitBody), item.title, "Converted from HTML"),
                   <<"convert_to_markdown", "markdownify_custom">>, None)
           ELSE IF IsImportError(o)
           THEN Ok(DerivedCopy(item, "markdown", item.body, item.title, ""),
                   <<"convert_to_markdown">>, None)
           ELSE Raise(Err(o, "markdownify_custom failed", <<>>),
                      <<"convert_to_markdown", "markdownify_custom">>, None)
           : o \in ToolkitOutcomes }
    ELSE {Ok(DerivedCopy(item, "markdown", item.body, item.title,
                         "Converted from " \o item.format),
             <<"convert_to_markdown">>, None)}

\* content.split('\n')[:10]
SummaryLines == 10

\* The bullet character U+2022 of the simple summary.
BulletChar == "u2022"

RECURSIVE Bullets(_)
Bullets(lines) ==
    IF lines = <<>> THEN <<>>
    ELSE IF Strip(Head(lines)) # <<>>
         THEN <<(<<BulletChar, " ">> \o Head(lines))>> \o Bullets(Tail(lines))
    ELSE Bullets(Tail(lines))

SimpleSummary(item) ==
    LET content == IF IsNone(item.body) THEN <<>> ELSE Get(item.body)
        all == Split(content, "\n")
        lines == SubSeq(all, 1, IF Len(all) < SummaryLines THEN Len(all) ELSE SummaryLines)
    IN DerivedCopy(item, "markdown", Some(Join(Bullets(lines), "\n")),
                   IF IsNone(item.title) THEN Some("summary")
                   ELSE Some(Get(item.title) \o "_summary"),
                   "Simple summary")

\* create_summary(item, input_path): the bare except takes every failure.
CreateSummary(item) ==
    { IF o = "ok" THEN Ok(ToolkitItem, <<"create_summary", "summarize_as_bullets">>, None)
      ELSE Ok(SimpleSummary(item), <<"create_summary">>, None)
      : o \in ToolkitOutcomes }

\* re.sub('<.*?>', '', s)
RECURSIVE StripTags(_)
StripTags(s) ==
    IF s = <<>> THEN <<>>
    ELSE LET ends == { j \in 2..Len(s) :
                         /\ s[j] = ">"
                         /\ \A k \in 2..(j - 1) : s[k] # "\n" /\ s[k] # ">" }
         IN IF Head(s) = "<" /\ ends # {}
            THEN StripTags(SubSeq(s, (CHOOSE j \in ends : TRUE) + 1, Len(s)))
            ELSE <<Head(s)>> \o StripTags(Tail(s))

\* strip_html_from_item(item)
StripHtmlFromItem(item) ==
    { IF o = "ok"
      THEN Ok(DerivedCopy(item, "plaintext", Some(ToolkitBody), item.title, "HTML stripped"),
              <<"strip_html_from_item", "html_to_plaintext">>, None)
      ELSE IF IsImportError(o)
      THEN Ok(DerivedCopy(item, "plaintext",
                          Some(StripTags(IF IsNone(item.body) THEN <<>> ELSE Get(item.body))),
                          item.title, ""),
              <<"strip_html_from_item">>, None)
      ELSE Raise(Err(o, "html_to_plaintext failed", <<>>),
                 <<"strip_html_from_item", "html_to_plaintext">>, None)
      : o \in ToolkitOutcomes }

\* get_output_suffix(action)
GetOutputSuffix(action) ==
    IF action = "summarize" THEN "_summary.md"
    ELSE IF action = "strip_html" THEN "_stripped.txt"
    ELSE ".md"

\* output_suffix.startswith('.'), on the suffixes get_output_suffix returns
StartsWithDot(output_suffix) == output_suffix \in {".md"}

\* input_path.with_suffix(s) if s.startswith('.') else input_path.with_name(stem + s)
LocalOutputPath(filepath, output_suffix) ==
    IF StartsWithDot(output_suffix)
    THEN [base |-> filepath, op |-> "with_suffix", arg |-> output_suffix]
    ELSE [base |-> filepath, op |-> "with_name", arg |-> "{stem}" \o output_suffix]

\* ------------------------- kash-ultimate-runner.py: process_item_with_action
\* look_up_action_class(action): a class when the name is registered.
LookUpActionClass(action, registry) == action \in registry

\* The value run_action_with_caching returns: None, or a ResultWithPaths whose
\* result is None or holds items.
ResNone == [is_none |-> TRUE, result_none |-> TRUE, items |-> <<>>]
ResInnerNone == [is_none |-> FALSE, result_none |-> TRUE, items |-> <<>>]
ResItems(items) == [is_none |-> FALSE, result_none |-> FALSE, items |-> items]

Ran(r, ran, read) ==
    [raised |-> FALSE, error |-> NoError, result |-> r, ran |-> ran, read |-> read]
RanRaise(error, ran, read) ==
    [raised |-> TRUE, error |-> error, result |-> ResNone, ran |-> ran, read |-> read]

\* run_action_with_caching(context, action_input): the custom action runs
\* docx_to_markdown on the item; a toolkit action yields toolkit items.
RunActionWithCaching(item, action) ==
    { Ran(r, <<"run_action_with_caching">>, None) : r \in {ResNone, ResInnerNone, ResItems(<<>>)} }
    \cup {RanRaise(Err("Exception", "action failed", <<>>), <<"run_action_with_caching">>, None)}
    \cup
    IF action = "docx_to_markdown"
    THEN { LET o == DocxToMarkdown(item, env, doc)
               ran == <<"run_action_with_caching", "docx_to_markdown">> \o o.ran
           IN IF o.raised THEN RanRaise(o.error, ran, o.read)
              ELSE Ran(ResItems(o.item), ran, o.read)
           : env \in DocxEnvs, doc \in RunnerDocs }
    ELSE { Ran(ResItems(<<ToolkitItem>>), <<"run_action_with_caching">>, None),
           Ran(ResItems(<<ToolkitItem2, ToolkitItem>>), <<"run_action_with_caching">>, None) }

\* Lines 186-190: the first result item, or the input item.
FirstResultItem(result, item) ==
    IF ~result.is_none /\ ~result.result_none /\ result.items # <<>>
    THEN result.items[1]
    ELSE item

\* Lines 159-190: the registered action class.
RegisteredAction(item, action) ==
    { IF r.raised THEN Raise(r.error, <<"look_up_action_class">> \o r.ran, r.read)
      ELSE [Ok(FirstResultItem(r.result, item), <<"look_up_action_class">> \o r.ran, r.read)
               EXCEPT !.res = Some(r.result)]
      : r \in RunActionWithCaching(item, action) }

\* The built-in dispatch as it would be with markdownify as the default branch.
BuiltinActionDefault(item, action) ==
    IF action = "summarize" THEN CreateSummary(item)
    ELSE IF action = "strip_html" THEN StripHtmlFromItem(item)
    ELSE ConvertToMarkdown(item)

\* Lines 192-200: the built-in actions.
BuiltinAction(item, action) ==
    IF action = "markdownify" THEN ConvertToMarkdown(item)
    ELSE IF action = "summarize" THEN CreateSummary(item)
    ELSE IF action = "strip_html" THEN StripHtmlFromItem(item)
    ELSE {Raise(Err("ValueError", "Unknown action: ", <<action>>), <<>>, None)}

\* The dispatch as it would be with the built-in names tested before the
\* registry.
ProcessItemWithActionBuiltinFirst(item, action, registry) ==
    IF action \in {"markdownify", "summarize", "strip_html"}
    THEN { [o EXCEPT !.ran = <<"look_up_action_class">> \o o.ran]
           : o \in BuiltinAction(item, action) }
    ELSE IF LookUpActionClass(action, registry)
    THEN RegisteredAction(item, action)
    ELSE { [o EXCEPT !.ran = <<"look_up_action_class">> \o o.ran]
           : o \in BuiltinAction(item, action) }

\* process_item_with_action(item, input_path, action, workspace_dir)
ProcessItemWithAction(item, action, registry) ==
    IF LookUpActionClass(action, registry)
    THEN RegisteredAction(item, action)
    ELSE { [o EXCEPT !.ran = <<"look_up_action_class">> \o o.ran]
           : o \in BuiltinAction(item, action) }

\* --------------------------------------------- kash-ultimate-runner.py: main
\* A command-line argument is the list arg.split("="): "--action=a=b" is
\* <<"--action", "a", "b">>, "a.docx" is <<"a.docx">>, "" is <<"">>.
ArgVersion == <<"--version">>

Args ==
    { ArgVersion,
      <<"--action", "summarize">>,
      <<"--action", "strip_html">>,
      <<"--action", "docx_to_markdown">>,
      <<"--action", "bogus", "strip_html">>,
      <<"a.docx">>,
      <<"">> }

ArgLists == SeqsUpTo(Args, MaxArgs)

\* arg.startswith("--action=")
IsActionArg(arg) == Len(arg) >= 2 /\ arg[1] = "--action"

\* arg.split("=")[1]
ActionOfArg(arg) == arg[2]

\* The parsing loop as it would be if the first file argument were kept.
RECURSIVE ParseArgsKeepFirstFile(_, _, _)
ParseArgsKeepFirstFile(args, action, filepath) ==
    IF args = <<>> THEN [action |-> action, filepath |-> filepath]
    ELSE IF IsActionArg(Head(args))
         THEN ParseArgsKeepFirstFile(Tail(args), ActionOfArg(Head(args)), filepath)
    ELSE ParseArgsKeepFirstFile(Tail(args), action,
                                IF IsNone(filepath) THEN Some(Head(args)) ELSE filepath)

\* Lines 299-306: the parsing loop over sys.argv[1:].
RECURSIVE ParseArgs(_, _, _)
ParseArgs(args, action, filepath) ==
    IF args = <<>> THEN [action |-> action, filepath |-> filepath]
    ELSE IF IsActionArg(Head(args))
         THEN ParseArgs(Tail(args), ActionOfArg(Head(args)), filepath)
    ELSE ParseArgs(Tail(args), action, Some(Head(args)))

\* not filepath: None or the empty string
NoFilepath(filepath) == IsNone(filepath) \/ Get(filepath) = <<"">>

\* The JSON objects printed and returned.
VersionReply ==
    [kind |-> "version", success |-> None, error |-> NoError, traceback |-> FALSE,
     output_file |-> None]
Failure(error, traceback) ==
    [kind |-> "result", success |-> Some(FALSE), error |-> error,
     traceback |-> traceback, output_file |-> None]
Success(output_file) ==
    [kind |-> "result", success |-> Some(TRUE), error |-> NoError,
     traceback |-> FALSE, output_file |-> Some(output_file)]

UsageError ==
    Err("", "Usage: kash-ultimate-runner.py <filepath> [--action=markdownify|summarize|strip_html]", <<>>)
NoFileError == Err("", "No file specified", <<>>)
FileNotFoundError(filepath) == Err("", "File not found: ", filepath)

\* result.get("success")
Truthy(o) == o.success = Some(TRUE)

\* The handler as it would be with a bare except (BaseException).
MainCatchesAll(cls) == TRUE

\* except Exception (main, line 324): SystemExit is no Exception.
MainCatches(cls) == cls # "SystemExit"

\* except Exception (process_with_filestore, line 145)
PwfCatches(cls) == cls # "SystemExit"

\* The registries refresh_action_classes() may find in the toolkit itself.
ToolkitRegistries ==
    { {}, {"markdownify"}, {"markdownify", "summarize", "strip_html"} }

VARIABLES
    pc,             \* position of the runner process
    argv,           \* sys.argv[1:]
    input_exists,   \* whether the file named on the command line exists
    log,            \* the toolkit imports and calls made so far, in order
    stdout,         \* the JSON objects printed
    exit_code,      \* the exit status, once exited
    registry,       \* the names look_up_action_class finds
    action,         \* main: action
    filepath,       \* main: filepath
    workspace_dir,  \* process_with_filestore: workspace_dir
    item,           \* process_with_filestore: item
    result_item,    \* process_with_filestore: result_item
    result,         \* main: result
    exc,            \* the exception main's handler received
    imported,       \* documents imported into the workspace store
    saved,          \* result items saved to the workspace store
    local_files,    \* local output files written
    docx_read,      \* the file docx_to_markdown resolved for reading
    action_result,  \* process_item_with_action: result of run_action_with_caching
    d_pc,           \* position inside docx_to_markdown
    d_item,         \* docx_to_markdown: item
    file_path,      \* docx_to_markdown: file_path
    d_doc,          \* docx_to_markdown: doc.paragraphs
    d_idx,          \* docx_to_markdown: paragraphs consumed by the loop
    markdown_lines, \* docx_to_markdown: markdown_lines
    markdown_content, \* docx_to_markdown: markdown_content
    d_log,          \* docx_to_markdown: imports and library calls made
    d_out           \* docx_to_markdown: the item returned or the error raised

runnerVars ==
    <<pc, argv, input_exists, log, stdout, exit_code, registry, action, filepath,
      workspace_dir, item, result_item, result, exc, imported, saved, local_files,
      docx_read, action_result>>
docxVars ==
    <<d_pc, d_item, file_path, d_doc, d_idx, markdown_lines, markdown_content,
      d_log, d_out>>
vars == <<runnerVars, docxVars>>

RunnerIdle ==
    /\ log = <<>> /\ stdout = <<>> /\ exit_code = None /\ registry = {}
    /\ action = "markdownify" /\ filepath = None /\ workspace_dir = None
    /\ item = None /\ result_item = None /\ result = None /\ exc = None
    /\ imported = <<>> /\ saved = <<>> /\ local_files = <<>> /\ docx_read = None
    /\ action_result = None

DocxIdle ==
    /\ d_item = None /\ file_path = None /\ d_doc = <<>> /\ d_idx = 0
    /\ markdown_lines = <<>> /\ markdown_content = None /\ d_log = <<>>
    /\ d_out = None

\* The runner process as started with an argument list.
Init ==
    /\ pc = "import_setup"
    /\ argv \in ArgLists
    /\ input_exists \in BOOLEAN
    /\ RunnerIdle
    /\ d_pc = "idle"
    /\ DocxIdle

\* ---- module start-up (lines 14-54)
\* The start-up as it would be with every toolkit import at the top.
ImportSetupHoisted ==
    /\ pc = "import_setup"
    /\ log' = log \o <<"import kash.config.setup", "import kash.config.settings",
                       "import kash.model.items_model", "import kash.config.logger",
                       "import kash.exec.action_registry">>
    /\ pc' = "kash_setup"
    /\ UNCHANGED <<argv, input_exists, action_result, stdout, exit_code, registry,
                   action, filepath, workspace_dir, item, result_item, result, exc,
                   imported, saved, local_files, docx_read, docxVars>>

\* Lines 16-17: the names kash_setup() needs.
ImportSetup ==
    /\ pc = "import_setup"
    /\ log' = log \o <<"import kash.config.setup", "import kash.config.settings">>
    /\ pc' = "kash_setup"
    /\ UNCHANGED <<argv, input_exists, action_result, stdout, exit_code, registry, action, filepath, workspace_dir,
                   item, result_item, result, exc, imported, saved, local_files,
                   docx_read, docxVars>>

\* Lines 21-25.
KashSetup ==
    /\ pc = "kash_setup"
    /\ log' = Append(log, "kash_setup")
    /\ pc' = "import_modules"
    /\ UNCHANGED <<argv, input_exists, action_result, stdout, exit_code, registry, action, filepath, workspace_dir,
                   item, result_item, result, exc, imported, saved, local_files,
                   docx_read, docxVars>>

\* Lines 28-30.
ImportModules ==
    /\ pc = "import_modules"
    /\ log' = log \o <<"import kash.model.items_model", "import kash.config.logger",
                       "import kash.exec.action_registry">>
    /\ pc' = "load_custom_actions"
    /\ UNCHANGED <<argv, input_exists, action_result, stdout, exit_code, registry, action, filepath, workspace_dir,
                   item, result_item, result, exc, imported, saved, local_files,
                   docx_read, docxVars>>

\* load_custom_actions(): the action file may be missing, may fail to load
\* (silently) or registers docx_to_markdown; then the registry is refreshed.
LoadCustomActions ==
    /\ pc = "load_custom_actions"
    /\ \E loaded \in {"missing", "failed", "ok"}, toolkit \in ToolkitRegistries :
        /\ log' = log
                  \o (IF loaded = "missing" THEN <<>> ELSE <<"runpy kash_docx_action.py">>)
                  \o <<"refresh_action_classes">>
        /\ registry' = toolkit \cup (IF loaded = "ok" THEN {"docx_to_markdown"} ELSE {})
    /\ pc' = "main"
    /\ UNCHANGED <<argv, input_exists, action_result, stdout, exit_code, action, filepath, workspace_dir,
                   item, result_item, result, exc, imported, saved, local_files,
                   docx_read, docxVars>>

\* ---- main() (lines 284-332)
\* sys.exit(code) inside main's try block raises SystemExit there.
SysExitInTry(code) ==
    IF MainCatches("SystemExit")
    THEN /\ pc' = "main_except"
         /\ exc' = Some(Err("SystemExit", "", <<>>))
         /\ UNCHANGED exit_code
    ELSE /\ pc' = "exited"
         /\ exit_code' = Some(code)
         /\ UNCHANGED exc

\* Lines 287-289.
MainVersion ==
    /\ pc = "main"
    /\ \E i \in 1..Len(argv) : argv[i] = ArgVersion
    /\ stdout' = Append(stdout, VersionReply)
    /\ SysExitInTry(0)
    /\ UNCHANGED <<argv, input_exists, action_result, log, registry, action, filepath, workspace_dir, item,
                   result_item, result, imported, saved, local_files, docx_read,
                   docxVars>>

\* Lines 291-296: len(sys.argv) < 2.
MainUsage ==
    /\ pc = "main"
    /\ ~\E i \in 1..Len(argv) : argv[i] = ArgVersion
    /\ Len(argv) + 1 < 2
    /\ stdout' = Append(stdout, Failure(UsageError, FALSE))
    /\ SysExitInTry(1)
    /\ UNCHANGED <<argv, input_exists, action_result, log, registry, action, filepath, workspace_dir, item,
                   result_item, result, imported, saved, local_files, docx_read,
                   docxVars>>

\* Lines 298-313: parse the arguments; without a file path report it and exit.
MainParse ==
    /\ pc = "main"
    /\ ~\E i \in 1..Len(argv) : argv[i] = ArgVersion
    /\ ~(Len(argv) + 1 < 2)
    /\ LET parsed == ParseArgs(argv, "markdownify", None) IN
        /\ action' = parsed.action
        /\ filepath' = parsed.filepath
        /\ IF NoFilepath(parsed.filepath)
           THEN /\ stdout' = Append(stdout, Failure(NoFileError, FALSE))
                /\ SysExitInTry(1)
           ELSE /\ pc' = "pwf_enter"
                /\ UNCHANGED <<stdout, exit_code, exc>>
    /\ UNCHANGED <<argv, input_exists, action_result, log, registry, workspace_dir, item, result_item, result,
                   imported, saved, local_files, docx_read, docxVars>>

\* An exception reaching main's try block: handled there, or the process dies
\* with Python's own traceback and status 1.
RaiseInMain(error) ==
    IF MainCatches(error.cls)
    THEN /\ pc' = "main_except"
         /\ exc' = Some(error)
         /\ UNCHANGED exit_code
    ELSE /\ pc' = "crashed"
         /\ exit_code' = Some(1)
         /\ UNCHANGED exc

\* ---- process_with_filestore (lines 70-151)
\* An exception inside the try block of process_with_filestore (lines 145-151).
PwfFail(error) ==
    IF PwfCatches(error.cls)
    THEN /\ result' = Some(Failure(error, TRUE))
         /\ pc' = "main_print"
         /\ UNCHANGED <<exc, exit_code>>
    ELSE /\ RaiseInMain(error)
         /\ UNCHANGED result

\* Line 75: with record_console() as console, outside the try block.
PwfEnter ==
    /\ pc = "pwf_enter"
    /\ \E ok \in BOOLEAN :
        IF ok
        THEN /\ pc' = "init_fs"
             /\ log' = Append(log, "record_console")
             /\ UNCHANGED <<exc, exit_code>>
        ELSE /\ RaiseInMain(Err("Exception", "record_console failed", <<>>))
             /\ log' = Append(log, "record_console")
    /\ UNCHANGED <<argv, input_exists, action_result, stdout, registry, action, filepath, workspace_dir, item,
                   result_item, result, imported, saved, local_files, docx_read,
                   docxVars>>

\* Line 78 and initialize_filestore() (lines 56-68).
InitializeFilestore ==
    /\ pc = "init_fs"
    /\ \E failing \in {"none", "import kash.file_storage.file_store", "mkdir", "FileStore"} :
        LET calls == <<"import kash.file_storage.file_store", "mkdir", "FileStore">>
            done == IF failing = "none" THEN 3
                    ELSE CHOOSE i \in 1..3 : calls[i] = failing
        IN /\ log' = log \o SubSeq(calls, 1, done)
           /\ IF failing = "none"
              THEN /\ workspace_dir' = Some(RunnerWorkspaceDir)
                   /\ pc' = "check_exists"
                   /\ UNCHANGED <<result, exc, exit_code>>
              ELSE /\ PwfFail(Err("Exception", failing \o " failed", <<>>))
                   /\ UNCHANGED workspace_dir
    /\ UNCHANGED <<argv, input_exists, action_result, stdout, registry, action, filepath, item, result_item,
                   imported, saved, local_files, docx_read, docxVars>>

\* process_with_filestore as it would be without the existence check.
CheckExistsSkipped ==
    /\ pc = "check_exists"
    /\ pc' = "import_item"
    /\ UNCHANGED <<argv, input_exists, action_result, log, stdout, exit_code, registry,
                   action, filepath, workspace_dir, item, result_item, result, exc,
                   imported, saved, local_files, docx_read, docxVars>>

\* Lines 80-85: the input path must exist.
CheckExists ==
    /\ pc = "check_exists"
    /\ IF input_exists
        THEN /\ pc' = "import_item"
             /\ UNCHANGED result
        ELSE /\ result' = Some(Failure(FileNotFoundError(Get(filepath)), FALSE))
             /\ pc' = "main_print"
    /\ UNCHANGED <<argv, input_exists, action_result, log, stdout, exit_code, registry, action, filepath,
                   workspace_dir, item, result_item, exc, imported, saved,
                   local_files, docx_read, docxVars>>

\* Line 88: store.import_item(str(input_path)).
ImportItem ==
    /\ pc = "import_item"
    /\ log' = Append(log, "import_item")
    /\ \E ok \in BOOLEAN :
        IF ok
        THEN /\ imported' = Append(imported, [into |-> Get(workspace_dir), path |-> Get(filepath)])
             /\ pc' = "load"
             /\ UNCHANGED <<result, exc, exit_code>>
        ELSE /\ PwfFail(Err("Exception", "import_item failed", <<>>))
             /\ UNCHANGED imported
    /\ UNCHANGED <<argv, input_exists, action_result, stdout, registry, action, filepath, workspace_dir, item,
                   result_item, saved, local_files, docx_read, docxVars>>

\* Line 91: store.load(imported_path).
LoadItem ==
    /\ pc = "load"
    /\ log' = Append(log, "load")
    /\ \/ \E it \in LoadedItems :
            /\ item' = Some(it)
            /\ pc' = "action"
            /\ UNCHANGED <<result, exc, exit_code>>
       \/ /\ PwfFail(Err("Exception", "load failed", <<>>))
          /\ UNCHANGED item
    /\ UNCHANGED <<argv, input_exists, action_result, stdout, registry, action, filepath, workspace_dir,
                   result_item, imported, saved, local_files, docx_read, docxVars>>

\* Line 94: process_item_with_action(item, input_path, action, workspace_dir).
ProcessItem ==
    /\ pc = "action"
    /\ \E o \in ProcessItemWithAction(Get(item), action, registry) :
        /\ log' = log \o <<"process_item_with_action">> \o o.ran
        /\ docx_read' = o.read
        /\ action_result' = o.res
        /\ IF o.raised
           THEN /\ PwfFail(o.error)
                /\ UNCHANGED result_item
           ELSE /\ result_item' = o.item
                /\ pc' = "save"
                /\ UNCHANGED <<result, exc, exit_code>>
    /\ UNCHANGED <<argv, input_exists, stdout, registry, action, filepath, workspace_dir,
                   item, imported, saved, local_files, docxVars>>

\* The save as it would be with its failure swallowed.
SaveResultSwallowed ==
    /\ pc = "save"
    /\ log' = Append(log, "save")
    /\ \E ok \in BOOLEAN :
        IF ok THEN saved' = Append(saved, Get(result_item)) ELSE UNCHANGED saved
    /\ pc' = "write_local"
    /\ UNCHANGED <<argv, input_exists, action_result, stdout, exit_code, registry,
                   action, filepath, workspace_dir, item, result_item, result, exc,
                   imported, local_files, docx_read, docxVars>>

\* Line 97: store.save(result_item).
SaveResult ==
    /\ pc = "save"
    /\ log' = Append(log, "save")
    /\ \E ok \in BOOLEAN :
        IF ok
        THEN /\ saved' = Append(saved, Get(result_item))
             /\ pc' = "write_local"
             /\ UNCHANGED <<result, exc, exit_code>>
        ELSE /\ PwfFail(Err("Exception", "save failed", <<>>))
             /\ UNCHANGED saved
    /\ UNCHANGED <<argv, input_exists, action_result, stdout, registry, action, filepath, workspace_dir, item,
                   result_item, imported, local_files, docx_read, docxVars>>

\* Lines 100-104: the local output file.
WriteLocal ==
    /\ pc = "write_local"
    /\ log' = Append(log, "open local output")
    /\ \E ok \in BOOLEAN :
        IF ok
        THEN /\ local_files' =
                    Append(local_files,
                           [path |-> LocalOutputPath(Get(filepath), GetOutputSuffix(action)),
                            content |-> IF IsNone(Get(result_item).body) THEN <<>>
                                        ELSE Get(Get(result_item).body)])
             /\ pc' = "stats"
             /\ UNCHANGED <<result, exc, exit_code>>
        ELSE /\ PwfFail(Err("Exception", "open failed", <<>>))
             /\ UNCHANGED local_files
    /\ UNCHANGED <<argv, input_exists, action_result, stdout, registry, action, filepath, workspace_dir, item,
                   result_item, imported, saved, docx_read, docxVars>>

\* Lines 106-143: workspace statistics and the success result.
CollectStats ==
    /\ pc = "stats"
    /\ log' = Append(log, "walk_items")
    /\ \E ok \in BOOLEAN :
        IF ok
        THEN /\ result' = Some(Success(LocalOutputPath(Get(filepath), GetOutputSuffix(action))))
             /\ pc' = "main_print"
             /\ UNCHANGED <<exc, exit_code>>
        ELSE PwfFail(Err("Exception", "walk_items failed", <<>>))
    /\ UNCHANGED <<argv, input_exists, action_result, stdout, registry, action, filepath, workspace_dir, item,
                   result_item, imported, saved, local_files, docx_read, docxVars>>

\* Lines 318-322: print the result and exit on its success flag.
MainPrint ==
    /\ pc = "main_print"
    /\ stdout' = Append(stdout, Get(result))
    /\ SysExitInTry(IF Truthy(Get(result)) THEN 0 ELSE 1)
    /\ UNCHANGED <<argv, input_exists, action_result, log, registry, action, filepath, workspace_dir, item,
                   result_item, result, imported, saved, local_files, docx_read,
                   docxVars>>

\* Lines 324-332: the handler prints an error object and exits with 1.
MainExcept ==
    /\ pc = "main_except"
    /\ stdout' = Append(stdout, Failure(Get(exc), TRUE))
    /\ exit_code' = Some(1)
    /\ pc' = "exited"
    /\ UNCHANGED <<argv, input_exists, action_result, log, registry, action, filepath, workspace_dir, item,
                   result_item, result, exc, imported, saved, local_files, docx_read,
                   docxVars>>

Next ==
    \/ ImportSetup
    \/ KashSetup
    \/ ImportModules
    \/ LoadCustomActions
    \/ MainVersion
    \/ MainUsage
    \/ MainParse
    \/ PwfEnter
    \/ InitializeFilestore
    \/ CheckExists
    \/ ImportItem
    \/ LoadItem
    \/ ProcessItem
    \/ SaveResult
    \/ WriteLocal
    \/ CollectStats
    \/ MainPrint
    \/ MainExcept

Spec == Init /\ [][Next]_vars

\* ------------------------------ kash_docx_action.py: docx_to_markdown, stepwise
\* The items the action is called with: with or without an external path and
\* a store path, with a DOCX suffix or another one.
DocxItems ==
    { Item("docx", None, Some("c"), e, sp) :
        e \in {None, Some(Path(<<"in">>, "c", ".docx")), Some(Path(<<"in">>, "c", ".html"))},
        sp \in {None, Some(Path(<<"docs">>, "c", ".DOC"))} }

\* One call of docx_to_markdown(item).
InitDocx ==
    /\ pc = "idle"
    /\ argv = <<>>
    /\ input_exists = FALSE
    /\ RunnerIdle
    /\ d_pc = "start"
    /\ d_item \in {Some(it) : it \in DocxItems}
    /\ file_path = None /\ d_doc = <<>> /\ d_idx = 0
    /\ markdown_lines = <<>> /\ markdown_content = None /\ d_log = <<>>
    /\ d_out = None

\* Lines 20-33.
DocxResolvePath ==
    /\ d_pc = "start"
    /\ file_path' = DocxFilePath(Get(d_item))
    /\ IF IsNone(file_path')
       THEN /\ d_out' = Some(Raise(Err("ValueError", "Item must have a file path for DOCX processing", <<>>),
                                   d_log, None))
            /\ d_pc' = "raised"
       ELSE /\ d_pc' = "check_suffix"
            /\ UNCHANGED d_out
    /\ UNCHANGED <<runnerVars, d_item, d_doc, d_idx, markdown_lines, markdown_content, d_log>>

\* Lines 35-37.
DocxCheckSuffix ==
    /\ d_pc = "check_suffix"
    /\ IF DocxSuffixOk(Get(file_path))
       THEN /\ d_pc' = "try"
            /\ UNCHANGED d_out
       ELSE /\ d_out' = Some(Raise(Err("ValueError", "File must be a DOCX file, got ",
                                       <<Get(file_path).suffix>>), d_log, None))
            /\ d_pc' = "raised"
    /\ UNCHANGED <<runnerVars, d_item, file_path, d_doc, d_idx, markdown_lines,
                   markdown_content, d_log>>

\* Lines 41-44: from docx import Document; Document(str(file_path)).
DocxOpen ==
    /\ d_pc = "try"
    /\ \E o \in ToolkitOutcomes :
        /\ d_log' = d_log \o (IF o = "ImportError" THEN <<"import docx">>
                              ELSE <<"import docx", "Document">>)
        /\ IF o = "ok"
           THEN /\ \E doc \in Documents : d_doc' = doc
                /\ d_pc' = "loop"
                /\ UNCHANGED d_out
           ELSE IF IsImportError(o)
           THEN /\ d_pc' = "fallback"
                /\ UNCHANGED <<d_doc, d_out>>
           ELSE /\ d_out' = Some(Raise(Err(o, "primary conversion failed", <<>>), d_log', file_path))
                /\ d_pc' = "raised"
                /\ UNCHANGED d_doc
    /\ UNCHANGED <<runnerVars, d_item, file_path, d_idx, markdown_lines, markdown_content>>

\* Lines 46-78: one paragraph of the loop.
DocxParagraph ==
    /\ d_pc = "loop"
    /\ d_idx < Len(d_doc)
    /\ markdown_lines' = markdown_lines \o ParagraphLines(d_doc[d_idx + 1])
    /\ d_idx' = d_idx + 1
    /\ UNCHANGED <<runnerVars, d_pc, d_item, file_path, d_doc, markdown_content, d_log, d_out>>

\* Line 80.
DocxJoin ==
    /\ d_pc = "loop"
    /\ d_idx = Len(d_doc)
    /\ markdown_content' = Some(MarkdownContent(markdown_lines))
    /\ d_log' = Append(d_log, "paragraphs")
    /\ d_pc' = "derive"
    /\ UNCHANGED <<runnerVars, d_item, file_path, d_doc, d_idx, markdown_lines, d_out>>

\* Lines 82-88: the docx2txt fallback.
DocxFallback ==
    /\ d_pc = "fallback"
    /\ \E o \in ToolkitOutcomes, txt \in {<<>>, <<"t", "x", "t", "\n">>} :
        IF o = "ok"
        THEN /\ d_log' = d_log \o <<"import docx2txt", "docx2txt.process">>
             /\ markdown_content' = Some(txt)
             /\ d_pc' = "derive"
             /\ UNCHANGED d_out
        ELSE IF IsImportError(o)
        THEN /\ d_log' = d_log \o <<"import docx2txt">>
             /\ d_out' = Some(Raise(Err("ImportError", "Neither python-docx nor docx2txt is installed. Please install one of them.", <<>>),
                                    d_log', file_path))
             /\ d_pc' = "raised"
             /\ UNCHANGED markdown_content
        ELSE /\ d_log' = d_log \o <<"import docx2txt", "docx2txt.process">>
             /\ d_out' = Some(Raise(Err(o, "docx2txt failed", <<>>), d_log', file_path))
             /\ d_pc' = "raised"
             /\ UNCHANGED markdown_content
    /\ UNCHANGED <<runnerVars, d_item, file_path, d_doc, d_idx, markdown_lines>>

\* Lines 90-100.
DocxDerive ==
    /\ d_pc = "derive"
    /\ d_log' = Append(d_log, "derived_copy")
    /\ d_out' = Some(Ok(DocxOutputItem(Get(d_item), Get(file_path), Get(markdown_content)),
                        d_log', file_path))
    /\ d_pc' = "returned"
    /\ UNCHANGED <<runnerVars, d_item, file_path, d_doc, d_idx, markdown_lines,
                   markdown_content>>

NextDocx ==
    \/ DocxResolvePath
    \/ DocxCheckSuffix
    \/ DocxOpen
    \/ DocxParagraph
    \/ DocxJoin
    \/ DocxFallback
    \/ DocxDerive

SpecDocx == InitDocx /\ [][NextDocx]_vars

\* The stepwise action and the function the runner's pipeline calls agree.
DocxStepwiseAgrees ==
    d_pc \in {"returned", "raised"} =>
        \E env \in DocxEnvs \cup { [docx |-> "ImportError", docx2txt |-> "ok", txt |-> <<>>] } :
            Get(d_out) = DocxToMarkdown(Get(d_item), env, d_doc)

\* ===================================================================== claims
Range(q) == { q[i] : i \in 1..Len(q) }
InLog(e) == e \in Range(log)
HasVersion(args) == ArgVersion \in Range(args)
Max(S) == CHOOSE m \in S : \A x \in S : x <= m
StartupPcs == {"import_setup", "kash_setup", "import_modules", "load_custom_actions"}

\* Some step of the runner can be taken.  At the call of
\* process_item_with_action that is: the call has an outcome.
CanStep ==
    IF pc = "action"
    THEN ProcessItemWithAction(Get(item), action, registry) # {}
    ELSE ENABLED Next

\* C1: every run of main() prints exactly one JSON object and then exits; the
\* exit status is 0 exactly when the printed object is the --version reply or
\* has success = true, and otherwise it is 1 with an object whose success is
\* false.  Nothing is printed twice, no run dies without printing, and a run
\* stops only by exiting.
C1_OneObjectThenExit ==
    /\ Len(stdout) <= 1
    /\ pc # "crashed"
    /\ pc = "exited" \/ CanStep
    /\ exit_code # None => pc = "exited"
    /\ pc = "exited" =>
        /\ Len(stdout) = 1
        /\ exit_code \in {Some(0), Some(1)}
        /\ exit_code = Some(0) <=>
              (stdout[1] = VersionReply \/ stdout[1].success = Some(TRUE))
        /\ exit_code = Some(1) =>
              (stdout[1].kind = "result" /\ stdout[1].success = Some(FALSE))

\* C1 witness: a run whose processing raised outside process_with_filestore's
\* own handler has printed its one object and exited with 1.
C1_Witness ==
    /\ pc = "exited"
    /\ exc # None
    /\ exit_code = Some(1)
    /\ Len(stdout) = 1

\* C3: when process_item_with_action is called with an action name that has no
\* registered class and is not markdownify, summarize or strip_html, it raises
\* 'Unknown action: <name>', the runner reports success = false (exit status
\* 1), no result item is saved and no local output file is written.
UnknownAction ==
    /\ ~LookUpActionClass(action, registry)
    /\ action \notin {"markdownify", "summarize", "strip_html"}

C3_UnknownActionRejected ==
    (InLog("process_item_with_action") /\ UnknownAction) =>
        LET failure == Failure(Err("ValueError", "Unknown action: ", <<action>>), TRUE) IN
        /\ result_item = None
        /\ result = Some(failure)
        /\ saved = <<>>
        /\ local_files = <<>>
        /\ ~InLog("save") /\ ~InLog("open local output")
        /\ pc \in {"main_print", "exited"}
        /\ pc = "exited" => (stdout = <<failure>> /\ exit_code = Some(1))

\* C3 witness: a finished run that dispatched an unknown action.
C3_Witness ==
    /\ InLog("process_item_with_action")
    /\ UnknownAction
    /\ pc = "exited"

\* C4: the argument positions the claim speaks of.
ActionArgIdx(args) == { i \in 1..Len(args) : IsActionArg(args[i]) }
FileArgIdx(args) == { i \in 1..Len(args) : ~IsActionArg(args[i]) }
ExpectedAction(args) ==
    IF ActionArgIdx(args) = {} THEN "markdownify"
    ELSE args[Max(ActionArgIdx(args))][2]
ExpectedFilepath(args) ==
    IF FileArgIdx(args) = {} THEN None ELSE Some(args[Max(FileArgIdx(args))])
NeverInitialized ==
    /\ workspace_dir = None
    /\ imported = <<>>
    /\ item = None
    /\ ~InLog("record_console")
    /\ ~InLog("import kash.file_storage.file_store")
    /\ ~InLog("FileStore")
    /\ ~InLog("import_item")
ReportsNoFile ==
    /\ pc = "exited"
    /\ stdout = <<Failure(NoFileError, FALSE)>>
    /\ exit_code = Some(1)
    /\ NeverInitialized
Parsed == pc \notin StartupPcs \cup {"main"} /\ ~HasVersion(argv)

\* C4 as stated: over any argument list without --version the action is
\* 'markdownify' without an '--action=' argument and otherwise comes from the
\* last one, the file path is the last other argument, and without such an
\* argument the runner reports 'No file specified' with exit status 1 and
\* never initializes the workspace or imports anything.
C4_AsStated ==
    Parsed =>
        /\ action = ExpectedAction(argv)
        /\ filepath = ExpectedFilepath(argv)
        /\ FileArgIdx(argv) = {} => ReportsNoFile

\* C4 amended: the same over any non-empty argument list without --version
\* (the action being the text between the first and the second '=' of the last
\* '--action=' argument); for the empty argument list the runner reports the
\* usage error instead, also with exit status 1 and without initializing the
\* workspace or importing anything.
C4_Parsing ==
    Parsed =>
        IF argv = <<>>
        THEN /\ pc = "exited"
             /\ stdout = <<Failure(UsageError, FALSE)>>
             /\ exit_code = Some(1)
             /\ NeverInitialized
        ELSE /\ action = ExpectedAction(argv)
             /\ filepath = ExpectedFilepath(argv)
             /\ FileArgIdx(argv) = {} => ReportsNoFile

\* C4 witness: two '--action=' arguments and two other arguments, parsed.
C4_Witness ==
    /\ Parsed
    /\ pc = "pwf_enter"
    /\ Cardinality(FileArgIdx(argv)) = 2
    /\ argv[Max(FileArgIdx(argv))] # argv[1]
    /\ action = "summarize"

\* C4 witness of the other case: only '--action=' arguments.
C4_WitnessNoFile ==
    /\ Parsed
    /\ argv # <<>>
    /\ FileArgIdx(argv) = {}
    /\ Cardinality({ argv[i][2] : i \in ActionArgIdx(argv) }) >= 2

\* C2: a DOCX item converted by the runner's own markdownify code, the toolkit
\* having no class registered for the action.
DocxByBuiltinMarkdownify ==
    /\ InLog("process_item_with_action")
    /\ item # None
    /\ Get(item).format = "docx"
    /\ action = "markdownify"
    /\ ~LookUpActionClass(action, registry)

\* C2 as stated: when a DOCX document is processed and the toolkit's conversion
\* is unavailable, the manual paragraph mapping is applied (the fallback) and
\* produces the Markdown body of the result.
C2_AsStated ==
    (DocxByBuiltinMarkdownify /\ result_item # None) => InLog("paragraphs")

\* C2 amended: a DOCX document processed by the runner's built-in markdownify
\* gets no manual mapping: the result is a Markdown copy whose body is the
\* item's body unchanged.  The manual paragraph mapping runs only inside the
\* registered docx_to_markdown action, as its primary conversion: never
\* together with the docx2txt fallback.
C2_ManualMappingOnlyInAction ==
    /\ DocxByBuiltinMarkdownify =>
        /\ ~InLog("paragraphs")
        /\ result_item = Some(DerivedCopy(Get(item), "markdown", Get(item).body,
                                          Get(item).title, "Converted from docx"))
    /\ InLog("paragraphs") =>
        /\ action = "docx_to_markdown"
        /\ LookUpActionClass(action, registry)
        /\ InLog("docx_to_markdown")
        /\ ~InLog("import docx2txt")

\* C2 witness: a successful run that converted a DOCX item with the built-in
\* markdownify.
C2_Witness ==
    /\ DocxByBuiltinMarkdownify
    /\ pc = "exited"
    /\ exit_code = Some(0)

\* C7: kash_setup() is called exactly once and before every toolkit import or
\* call other than the two imports its own names come from
\* (kash.config.setup, kash.config.settings): before the other toolkit
\* modules are imported, the custom action file is loaded, the registry is
\* refreshed and the FileStore is initialized.
SetupImports == {"import kash.config.setup", "import kash.config.settings"}
Count(q, e) == Cardinality({ i \in 1..Len(q) : q[i] = e })

C7_KashSetupFirst ==
    /\ Count(log, "kash_setup") <= 1
    /\ pc \notin {"import_setup", "kash_setup"} => Count(log, "kash_setup") = 1
    /\ \A i \in 1..Len(log) :
          log[i] \notin SetupImports \cup {"kash_setup"} =>
              \E j \in 1..(i - 1) : log[j] = "kash_setup"

\* C7 witness: the custom action file was loaded, the registry refreshed and
\* the FileStore initialized.
C7_Witness ==
    /\ InLog("runpy kash_docx_action.py")
    /\ InLog("refresh_action_classes")
    /\ InLog("FileStore")

\* C8: when docx_to_markdown resolves the store path of an item without an
\* external path, the file it reads lies in the workspace directory into which
\* the runner (and the wrapper) imported the item.
C8_StorePathInWorkspace ==
    (/\ docx_read # None
     /\ IsNone(Get(item).external_path)
     /\ ~IsNone(Get(item).store_path)) =>
        /\ Get(docx_read) = JoinPath(Get(workspace_dir), Get(Get(item).store_path))
        /\ \A i \in 1..Len(imported) :
              Get(docx_read) = JoinPath(imported[i].into, Get(Get(item).store_path))
        /\ Get(docx_read) = JoinPath(WrapperWorkspaceDir, Get(Get(item).store_path))

\* C9: what process_with_filestore must not have done for a missing input.
NothingProcessed ==
    /\ imported = <<>> /\ ~InLog("import_item")
    /\ item = None /\ ~InLog("load")
    /\ result_item = None /\ ~InLog("process_item_with_action")
    /\ saved = <<>> /\ ~InLog("save")
    /\ local_files = <<>> /\ ~InLog("open local output")
FileNotFoundResult == Failure(FileNotFoundError(Get(filepath)), FALSE)

\* C9 as stated: when the input path does not exist, the result of
\* process_with_filestore is success = false with 'File not found: <path>' and
\* nothing was imported, run, saved or written.
C9_AsStated ==
    (~input_exists /\ result # None) =>
        (result = Some(FileNotFoundResult) /\ NothingProcessed)

\* C9 amended: when the input path does not exist, the call imports no
\* document, runs no action, saves no result item and writes no local output
\* file, and it never reports success; when initialize_filestore() succeeded,
\* its result is success = false with error 'File not found: <path>'.
C9_MissingInput ==
    ~input_exists =>
        /\ NothingProcessed
        /\ result # None => ~Truthy(Get(result))
        /\ (result # None /\ workspace_dir # None) => result = Some(FileNotFoundResult)
        /\ pc = "exited" => exit_code # Some(0) \/ HasVersion(argv)

\* C9 witness: a run that reported the missing file.
C9_Witness ==
    /\ ~input_exists
    /\ pc = "exited"
    /\ filepath # None
    /\ stdout = <<FileNotFoundResult>>

\* C10: when the registry has a class for the action name, none of the built-in
\* markdownify/summarize/strip_html code runs, whatever the name; the item
\* returned is the input item when the action's result is empty (no result, no
\* inner result or no items) and the first result item otherwise.
C10_RegisteredFirst ==
    (InLog("process_item_with_action") /\ LookUpActionClass(action, registry)) =>
        /\ InLog("run_action_with_caching")
        /\ ~InLog("convert_to_markdown")
        /\ ~InLog("create_summary")
        /\ ~InLog("strip_html_from_item")
        /\ result_item # None =>
            /\ action_result # None
            /\ LET r == Get(action_result) IN
               IF r.is_none \/ r.result_none \/ r.items = <<>>
               THEN result_item = item
               ELSE result_item = Some(r.items[1])

\* C10 witness: a registered class under a built-in name returned no items and
\* the input item went on unchanged.
C10_Witness ==
    /\ InLog("process_item_with_action")
    /\ LookUpActionClass(action, registry)
    /\ action \in {"markdownify", "summarize", "strip_html"}
    /\ action_result = Some(ResItems(<<>>))
    /\ result_item = item
    /\ pc = "exited"

\* C10 witness of the other case: several result items, the first returned.
C10_WitnessFirst ==
    /\ LookUpActionClass(action, registry)
    /\ action_result # None
    /\ Len(Get(action_result).items) = 2
    /\ result_item = Some(Get(action_result).items[1])

\* C5: the style rules in the order the claim gives them.
StyleRules ==
    << [contains |-> StrTitle, prefix |-> <<"#", " ">>],
       [contains |-> StrHeading1, prefix |-> <<"#", "#", " ">>],
       [contains |-> StrHeading2, prefix |-> <<"#", "#", "#", " ">>],
       [contains |-> StrHeading3, prefix |-> <<"#", "#", "#", "#", " ">>],
       [contains |-> StrList, prefix |-> <<"-", " ">>] >>
MatchingRules(p) ==
    { i \in 1..Len(StyleRules) : Contains(StyleName(p), StyleRules[i].contains) }
Min(S) == CHOOSE m \in S : \A x \in S : m <= x
HasText(p) == Strip(p.text) # <<>>
\* The run-formatted text: the formatted runs, or the stripped text of a
\* paragraph whose runs give none.
RunFormattedText(p) ==
    IF FormattedText(p.runs) # <<>> THEN FormattedText(p.runs) ELSE Strip(p.text)
ExpectedContentLine(p) ==
    IF MatchingRules(p) = {} THEN RunFormattedText(p)
    ELSE StyleRules[Min(MatchingRules(p))].prefix \o Strip(p.text)
ExpectedContentLines(paragraphs) ==
    LET with_text == SelectSeq(paragraphs, HasText)
    IN [i \in 1..Len(with_text) |-> ExpectedContentLine(with_text[i])]
IsContentLine(line) == line # <<>>

\* C5: after any number of paragraphs the content lines of markdown_lines (its
\* non-empty entries) are, in paragraph order, exactly one line for each
\* paragraph whose stripped text is non-empty, chosen by the first matching
\* style rule (Title, Heading 1, Heading 2, Heading 3, List, otherwise the
\* run-formatted text); paragraphs whose stripped text is empty add nothing.
C5_OneContentLinePerParagraph ==
    /\ d_idx <= Len(d_doc)
    /\ SelectSeq(markdown_lines, IsContentLine)
          = ExpectedContentLines(SubSeq(d_doc, 1, d_idx))
    /\ Len(SelectSeq(markdown_lines, IsContentLine))
          = Cardinality({ i \in 1..d_idx : HasText(d_doc[i]) })
    /\ (\A i \in 1..d_idx : ~HasText(d_doc[i])) => markdown_lines = <<>>

\* C5 witness: a converted document with a paragraph whose style matches two
\* rules, after a paragraph of another kind.
C5_Witness ==
    /\ d_pc = "returned"
    /\ Len(d_doc) = 2
    /\ d_idx = 2
    /\ d_doc[1] # d_doc[2]
    /\ HasText(d_doc[1])
    /\ Cardinality(MatchingRules(d_doc[2])) = 2
    /\ HasText(d_doc[2])

\* C5 witness of the other case: a paragraph without text in a document.
C5_WitnessEmpty ==
    /\ d_pc = "returned"
    /\ Len(d_doc) = 2
    /\ ~HasText(d_doc[1])
    /\ MatchingRules(d_doc[2]) = {}
    /\ Len(SelectSeq(markdown_lines, IsContentLine)) = 1

InDocxLog(e) == e \in Range(d_log)

\* C6: docx2txt is tried only after the import of python-docx failed (and then
\* no Document was opened), it is tried at most once; when neither can be
\* imported the action raises ImportError and returns no item; and a failure
\* of the primary conversion that is no import failure is raised without the
\* fallback having been tried.
C6_SingleFallback ==
    /\ Count(d_log, "import docx2txt") <= 1
    /\ Count(d_log, "docx2txt.process") <= 1
    /\ InDocxLog("import docx2txt") =>
          /\ d_log[1] = "import docx"
          /\ ~InDocxLog("Document")
          /\ ~InDocxLog("paragraphs")
    /\ (InDocxLog("import docx2txt") /\ ~InDocxLog("docx2txt.process")) =>
          /\ d_pc = "raised"
          /\ Get(d_out).raised
          /\ Get(d_out).error.cls = "ImportError"
          /\ Get(d_out).item = None
    /\ (d_pc = "raised" /\ InDocxLog("Document")) =>
          /\ Get(d_out).raised
          /\ ~IsImportError(Get(d_out).error.cls)
          /\ Get(d_out).item = None
          /\ ~InDocxLog("import docx2txt")
    /\ d_pc = "raised" => (Get(d_out).raised /\ Get(d_out).item = None)
    /\ d_pc = "returned" => (~Get(d_out).raised /\ Get(d_out).item # None)

\* C6 witness: neither library could be imported.
C6_Witness ==
    /\ d_pc = "raised"
    /\ d_log = <<"import docx", "import docx2txt">>

\* C6 witness of the other case: the primary conversion failed otherwise.
C6_WitnessPrimary ==
    /\ d_pc = "raised"
    /\ d_log = <<"import docx", "Document">>

\* C11: the steps of process_with_filestore, in the order the claim gives.
PwfSteps ==
    <<"import_item", "load", "process_item_with_action", "save",
      "open local output", "walk_items">>
IsPwfStep(e) == e \in Range(PwfSteps)
StepLog == SelectSeq(log, IsPwfStep)
\* A step that was started and did not complete: import, load, action or save.
FailedBeforeWrite ==
    \/ InLog("import_item") /\ imported = <<>>
    \/ InLog("load") /\ item = None
    \/ InLog("process_item_with_action") /\ result_item = None
    \/ InLog("save") /\ saved = <<>>

\* C11: the steps started so far are a prefix of import, load, action, save,
\* local write, statistics (each at most once, in that order); a local output
\* file exists only after the result item was saved to the store; a failure of
\* import, load, action or save ends the call with a failure result and no
\* local output file; and a result with success = true means that every step
\* completed.
C11_StepOrder ==
    /\ StepLog = SubSeq(PwfSteps, 1, Len(StepLog))
    /\ Len(imported) <= 1 /\ Len(saved) <= 1 /\ Len(local_files) <= 1
    /\ local_files # <<>> =>
        /\ saved = <<Get(result_item)>>
        /\ imported # <<>>
        /\ item # None
    /\ FailedBeforeWrite =>
        /\ local_files = <<>>
        /\ ~InLog("open local output")
        /\ ~InLog("walk_items")
        /\ pc \in {"main_print", "exited"}
        /\ result # None
        /\ ~Truthy(Get(result))
    /\ (result # None /\ Truthy(Get(result))) =>
        /\ StepLog = PwfSteps
        /\ imported = <<[into |-> RunnerWorkspaceDir, path |-> Get(filepath)]>>
        /\ item # None
        /\ result_item # None
        /\ saved = <<Get(result_item)>>
        /\ Len(local_files) = 1
        /\ Some(local_files[1].path) = Get(result).output_file

\* C11 witness: a run whose every step completed and that reported success.
C11_Witness ==
    /\ pc = "exited"
    /\ exit_code = Some(0)
    /\ result # None
    /\ Truthy(Get(result))
    /\ StepLog = PwfSteps

\* C11 witness of a failure: the save to the store failed.
C11_WitnessSaveFailed ==
    /\ InLog("save")
    /\ saved = <<>>
    /\ pc = "exited"

\* C11 witness of a late failure: the statistics failed after the local write.
C11_WitnessStatsFailed ==
    /\ InLog("walk_items")
    /\ local_files # <<>>
    /\ result # None
    /\ ~Truthy(Get(result))

\* C12: the marker the claim gives for a run.
RunMarker(run) ==
    IF run.bold /\ run.italic THEN <<"*", "*", "*">>
    ELSE IF run.bold THEN <<"*", "*">>
    ELSE IF run.italic THEN <<"*">>
    ELSE <<>>
RECURSIVE WrappedRuns(_)
WrappedRuns(runs) ==
    IF runs = <<>> THEN <<>>
    ELSE RunMarker(Head(runs)) \o Head(runs).text \o RunMarker(Head(runs))
            \o WrappedRuns(Tail(runs))
RunLine(p) == IF WrappedRuns(p.runs) # <<>> THEN WrappedRuns(p.runs) ELSE Strip(p.text)
IsListParagraph(p) == Contains(StyleName(p), StrList)
\* The index in markdown_lines of the content line of paragraph i of the
\* document, counting two entries for a paragraph outside a list, one for a
\* list paragraph and none for a paragraph without text.
RECURSIVE EntriesBefore(_, _)
EntriesBefore(paragraphs, i) ==
    IF i <= 1 THEN 0
    ELSE EntriesBefore(paragraphs, i - 1)
            + (IF ~HasText(paragraphs[i - 1]) THEN 0
               ELSE IF IsListParagraph(paragraphs[i - 1]) THEN 1 ELSE 2)
LineIndex(i) == EntriesBefore(d_doc, i) + 1
NoOuterWhitespace(text) ==
    text # <<>> => (text[1] \notin Whitespace /\ text[Len(text)] \notin Whitespace)

\* C12: in the line list built by the paragraph loop, the line of a paragraph
\* that matches none of the Title/Heading/List rules is the concatenation of
\* its runs in order, a bold and italic run wrapped in '***', a bold run in
\* '**', an italic run in '*' and any other run unchanged, or the stripped
\* paragraph text when that concatenation is empty; the line of a paragraph
\* whose style name does not contain 'List' is followed by exactly one empty
\* entry, the line of a list paragraph by none; and the body joined from the
\* lines has no leading or trailing whitespace.
C12_RunsSpacingStrip ==
    /\ \A i \in 1..d_idx : HasText(d_doc[i]) =>
          LET k == LineIndex(i)
              p == d_doc[i]
              last == k + (IF IsListParagraph(p) THEN 0 ELSE 1)
          IN /\ last <= Len(markdown_lines)
             /\ markdown_lines[k] # <<>>
             /\ MatchingRules(p) = {} => markdown_lines[k] = RunLine(p)
             /\ ~IsListParagraph(p) => markdown_lines[k + 1] = <<>>
             /\ last < Len(markdown_lines) => markdown_lines[last + 1] # <<>>
             /\ (last = Len(markdown_lines))
                   = (\A j \in (i + 1)..d_idx : ~HasText(d_doc[j]))
    /\ \A k \in 1..Len(markdown_lines) :
          markdown_lines[k] = <<>> => (k > 1 /\ markdown_lines[k - 1] # <<>>)
    /\ (InDocxLog("paragraphs") /\ d_pc \in {"derive", "returned"}) =>
          /\ markdown_content # None
          /\ NoOuterWhitespace(Get(markdown_content))
          /\ (Get(markdown_content) = <<>>)
                = (\A k \in 1..Len(markdown_lines) : Strip(markdown_lines[k]) = <<>>)
    /\ (InDocxLog("paragraphs") /\ d_pc = "returned") =>
          Get(d_out).item # None /\ NoOuterWhitespace(Get(Get(Get(d_out).item).body))

\* C12 witness: a converted document of a list paragraph followed by a
\* paragraph outside every rule with a bold and italic run, whose trailing
\* empty entry the final strip removes from the body.
C12_Witness ==
    /\ d_pc = "returned"
    /\ InDocxLog("paragraphs")
    /\ Len(d_doc) = 2
    /\ IsListParagraph(d_doc[1]) /\ HasText(d_doc[1])
    /\ MatchingRules(d_doc[2]) = {}
    /\ \E r \in Range(d_doc[2].runs) : r.bold /\ r.italic
    /\ Len(markdown_lines) = 3
    /\ markdown_lines[3] = <<>>
    /\ Get(markdown_content) = Join(SubSeq(markdown_lines, 1, 2), "\n")

\* C12 witness of the other cases: a paragraph outside every rule whose runs
\* differ in formatting, after a paragraph without runs.
C12_WitnessMixedRuns ==
    /\ d_pc = "returned"
    /\ Len(d_doc) = 2
    /\ d_doc[1].runs = <<>> /\ HasText(d_doc[1]) /\ MatchingRules(d_doc[1]) = {}
    /\ markdown_lines[1] = Strip(d_doc[1].text)
    /\ Len(d_doc[2].runs) = 2
    /\ d_doc[2].runs[1].bold /\ ~d_doc[2].runs[1].italic
    /\ d_doc[2].runs[2].italic /\ ~d_doc[2].runs[2].bold
    /\ Len(markdown_lines) = 4

\* C12 witness: a line with leading whitespace is kept in the line list and
\* loses it in the body.
C12_WitnessLeadingSpace ==
    /\ d_pc = "returned"
    /\ InDocxLog("paragraphs")
    /\ markdown_lines # <<>>
    /\ markdown_lines[1] # <<>>
    /\ markdown_lines[1][1] \in Whitespace
    /\ Get(markdown_content) # <<>>

\* The docx2txt fallback does not strip: its body may end in whitespace.
C12_WitnessFallbackUnstripped ==
    /\ d_pc = "returned"
    /\ InDocxLog("docx2txt.process")
    /\ ~NoOuterWhitespace(Get(Get(Get(d_out).item).body))


====
